---- MODULE Spec2Model ----
(***************************************************************************)
(* KarEnhanceDevocalized backend: the multiband STFT spectral gain         *)
(* processor (processor.py), the band planner and the mix analyzer         *)
(* (analyzer.py), and the async wrapper that polls the worker's progress.  *)
(* The HTTP endpoints analyze, reanalyze and process over one session      *)
(* directory, and the websocket broadcast of progress values (main.py).    *)
(*                                                                         *)
(* Fixed point.  Gains, intensities and samples are integers in units of   *)
(* 1/Q (Q = 1000).  Frequencies are in half-Hz, so that sr/2 is exact for  *)
(* every integer sample rate.  Frame times are in ticks: one hop at sample *)
(* rate sr lasts TimeBase/sr ticks, so hop/sr keeps its exact ratio        *)
(* between sample rates.                                                   *)
(*                                                                         *)
(* Audio.  A channel is a function from the sample positions of ProbePos   *)
(* that lie inside the file to sample values; every other sample of the    *)
(* file is zero.  A file is a pure tone: all of its energy sits in one FFT *)
(* bin (tone_bin).  The STFT puts the sample at position p into frame      *)
(* p \div PROC_HOP of that bin and the ISTFT puts it back, so STFT         *)
(* followed by ISTFT with all gains 1 is the identity.                     *)
(***************************************************************************)
EXTENDS Integers, Sequences, FiniteSets, TLC

Q == 10 ^ 3

\* ---------------------------------------------------------------- bounds
\* Number of bisection levels of the band planner: band counts are
\* 2^0 .. 2^MaxLevel.
MaxLevel == 2
\* Longest analysis frame grid.
MaxFrames == 3
\* Number of progress values the poller may forward before the final 100.
MaxPolls == 3

\* ------------------------------------------------------ program constants
ANALYSIS_SR == 22050
N_FFT == 2048
HOP_LENGTH == 512
PROC_N_FFT == 2048
PROC_HOP == 512
MAX_GAIN == 10

\* ------------------------------------------------------------- arithmetic
Abs(x) == IF x < 0 THEN -x ELSE x
Sign(x) == IF x < 0 THEN -1 ELSE IF x > 0 THEN 1 ELSE 0
Min2(a, b) == IF a < b THEN a ELSE b
Max2(a, b) == IF a > b THEN a ELSE b
\* a / b rounded toward zero (b > 0).
IDiv(a, b) == Sign(a) * (Abs(a) \div b)
\* a / b rounded to nearest (a >= 0, b > 0).
RDiv(a, b) == (2 * a + b) \div (2 * b)

RECURSIVE SqrtSearch(_, _, _)
SqrtSearch(n, lo, hi) ==
    IF lo >= hi THEN lo
    ELSE LET mid == (lo + hi + 1) \div 2
         IN  IF mid * mid <= n THEN SqrtSearch(n, mid, hi)
                               ELSE SqrtSearch(n, lo, mid - 1)
\* floor(sqrt(n)), 0 <= n < 2^31.
ISqrt(n) == SqrtSearch(n, 0, 46340)

RECURSIVE SeqMax(_)
SeqMax(s) == IF Len(s) = 1 THEN s[1] ELSE Max2(s[1], SeqMax(Tail(s)))

SetMax(S) == IF S = {} THEN 0
             ELSE LET x == CHOOSE y \in S : \A z \in S : z <= y IN x

RECURSIVE SetSum(_)
SetSum(S) == IF S = {} THEN 0
             ELSE LET x == CHOOSE y \in S : TRUE IN x + SetSum(S \ {x})

RECURSIVE Pow2(_)
Pow2(k) == IF k = 0 THEN 1 ELSE 2 * Pow2(k - 1)

\* ------------------------------------------------------------ band planner
\* Frequencies in half-Hz.
F_MIN == 2 * 60
F_CAP == 2 * 16000

\* np.geomspace(lo, hi, n + 1) for n a power of two: the middle edge is the
\* geometric mean of the two ends, and each half is divided the same way.
\* The two ends are returned exactly.
RECURSIVE geomspace(_, _, _)
geomspace(lo, hi, n) ==
    IF n = 1 THEN <<lo, hi>>
    ELSE LET mid == ISqrt(lo * hi)
         IN  geomspace(lo, mid, n \div 2) \o Tail(geomspace(mid, hi, n \div 2))

\* analyzer.py compute_band_edges: f_max = min(16000.0, sr / 2.0).
compute_band_edges(n_bands, sr) ==
    geomspace(F_MIN, Min2(F_CAP, sr), n_bands)

\* Mutant: the upper edge of a band is taken as inclusive.
BinInBand_closed(i, n_fft, sr, low, high) ==
    /\ 2 * i * sr >= low * n_fft
    /\ 2 * i * sr <= high * n_fft

\* np.fft.rfftfreq(n_fft, 1/sr)[i] = i * sr / n_fft Hz; in half-Hz it is
\* 2 * i * sr / n_fft, compared with an edge e as 2*i*sr against e*n_fft.
BinInBand(i, n_fft, sr, low, high) ==
    /\ 2 * i * sr >= low * n_fft
    /\ 2 * i * sr < high * n_fft

\* analyzer.py map_bins_to_bands: band b (1-based here) gets the bins whose
\* frequency lies in [band_edges[b], band_edges[b+1]).
map_bins_to_bands(n_fft, sr, band_edges) ==
    [b \in 1..(Len(band_edges) - 1) |->
        {i \in 0..(n_fft \div 2) :
            BinInBand(i, n_fft, sr, band_edges[b], band_edges[b + 1])}]

\* analyzer.py build_band_definitions.  round(x, 1) leaves a multiple of
\* 0.5 Hz as it is; the center is rounded to the half-Hz grid.
build_band_definitions(band_edges) ==
    [b \in 1..(Len(band_edges) - 1) |->
        [index |-> b - 1,
         low_hz |-> band_edges[b],
         high_hz |-> band_edges[b + 1],
         center_hz |-> ISqrt(band_edges[b] * band_edges[b + 1])]]

\* ------------------------------------------------------------ frame times
\* Ticks per second: a multiple of every sample rate of the model.
TimeBase == 22050 * 320
TicksPerHop(sr) == TimeBase \div sr

\* librosa.frames_to_time(np.arange(n), sr, hop_length): frame i (0-based)
\* is at i * hop / sr seconds, i.e. i * TicksPerHop(sr) ticks.
frames_to_time(n_frames, sr) ==
    [i \in 1..n_frames |-> (i - 1) * TicksPerHop(sr)]

\* ------------------------------------------------- intensity interpolation
\* Mutant: kind='previous' instead of kind='linear'.
interp1d_previous(xs, ys, fill, t) ==
    IF t < xs[1] \/ t > xs[Len(xs)] THEN fill
    ELSE LET k  == CHOOSE j \in 1..Len(xs) :
                       /\ xs[j] >= t
                       /\ \A m \in 1..(j - 1) : xs[m] < t
             hi == Max2(2, k)
         IN  ys[hi - 1]

\* scipy interp1d(x, y, kind='linear', bounds_error=False, fill_value=fill)
\* at t: fill outside [x[0], x[-1]]; inside, the segment is the one whose
\* upper node is the first x >= t (searchsorted, clipped to 1..len-1) and
\* the value is slope * (t - x_lo) + y_lo.
interp1d(xs, ys, fill, t) ==
    IF t < xs[1] \/ t > xs[Len(xs)] THEN fill
    ELSE LET k  == CHOOSE j \in 1..Len(xs) :
                       /\ xs[j] >= t
                       /\ \A m \in 1..(j - 1) : xs[m] < t
             hi == Max2(2, k)
             lo == hi - 1
         IN  ys[lo] + ((ys[hi] - ys[lo]) * (t - xs[lo])) \div (xs[hi] - xs[lo])

\* Mutant: vocal mode clipped from below only.
_interpolate_clip_low(intensity_matrix, analysis_frame_times, target_frame_times, mode) ==
    LET fill == IF mode = "mix" THEN Q ELSE 0
    IN  [b \in 1..Len(intensity_matrix) |->
            [i \in 1..Len(target_frame_times) |->
                Max2(interp1d(analysis_frame_times, intensity_matrix[b],
                              fill, target_frame_times[i]), fill)]]

\* Mutant: the interpolated matrix is returned without np.clip.
_interpolate_unclipped(intensity_matrix, analysis_frame_times, target_frame_times, mode) ==
    LET fill == IF mode = "mix" THEN Q ELSE 0
    IN  [b \in 1..Len(intensity_matrix) |->
            [i \in 1..Len(target_frame_times) |->
                interp1d(analysis_frame_times, intensity_matrix[b],
                         fill, target_frame_times[i])]]

\* processor.py _interpolate_intensity_to_stft_frames: per band linear
\* interpolation with the mode's fill, then np.clip(result, 1.0, None) in
\* mix mode and np.clip(result, 0.0, 1.0) otherwise.
_interpolate_intensity_to_stft_frames(intensity_matrix, analysis_frame_times, target_frame_times, mode) ==
    LET fill == IF mode = "mix" THEN Q ELSE 0
        raw(b, i) == interp1d(analysis_frame_times, intensity_matrix[b],
                              fill, target_frame_times[i])
    IN  [b \in 1..Len(intensity_matrix) |->
            [i \in 1..Len(target_frame_times) |->
                IF mode = "mix" THEN Max2(raw(b, i), Q)
                ELSE Min2(Max2(raw(b, i), 0), Q)]]

\* -------------------------------------------------------------- gain matrix
\* Mutant: the vocal range ends just below 4000 Hz.
freq_scale_open(center) ==
    IF 2 * 200 <= center /\ center < 2 * 4000 THEN 1200
    ELSE IF 2 * 100 <= center /\ center <= 2 * 6000 THEN 1000
    ELSE 700

\* processor.py lines 109-114: the vocal-mode frequency ladder, in 1/Q;
\* center in half-Hz.
freq_scale(center) ==
    IF 2 * 200 <= center /\ center <= 2 * 4000 THEN 1200
    ELSE IF 2 * 100 <= center /\ center <= 2 * 6000 THEN 1000
    ELSE 700

\* processor.py _compute_gain_matrix.
_compute_gain_matrix(intensity_matrix, eq_level, band_defs, mode) ==
    IF eq_level = 0
    THEN [b \in 1..Len(intensity_matrix) |->
            [i \in 1..Len(intensity_matrix[b]) |-> Q]]
    ELSE IF mode = "mix"
    THEN [b \in 1..Len(intensity_matrix) |->
            [i \in 1..Len(intensity_matrix[b]) |->
                Q + IDiv(eq_level * (intensity_matrix[b][i] - Q), 10)]]
    ELSE [b \in 1..Len(intensity_matrix) |->
            [i \in 1..Len(intensity_matrix[b]) |->
                IF b <= Len(band_defs)
                THEN Q + IDiv(((eq_level * 250 * freq_scale(band_defs[b].center_hz))
                                 \div Q) * intensity_matrix[b][i], Q)
                ELSE Q]]

\* ------------------------------------------------------------------- audio
\* The sample positions the model follows; every other sample is zero.
ProbePos == {0, 1100}
PosIn(n) == {p \in ProbePos : p < n}

\* An audio buffer [n, ch, x]: n samples per channel, ch channels, and
\* x[c][p] the sample of channel c at position p.
Samples(audio) == {<<c, p>> : c \in 1..audio.ch, p \in PosIn(audio.n)}
MapSamples(audio, F(_)) ==
    [audio EXCEPT !.x = [c \in 1..audio.ch |->
                            [p \in PosIn(audio.n) |-> F(audio.x[c][p])]]]
\* np.max(np.abs(audio)).
Peak(audio) == SetMax({Abs(audio.x[i[1]][i[2]]) : i \in Samples(audio)})

RECURSIVE SumSqOver(_, _)
SumSqOver(audio, S) ==
    IF S = {} THEN 0
    ELSE LET i == CHOOSE j \in S : TRUE
         IN  audio.x[i[1]][i[2]] * audio.x[i[1]][i[2]] + SumSqOver(audio, S \ {i})

\* -------------------------------------------------------- spectral processor
\* librosa.stft(signal, n_fft, hop_length) with its default center=True
\* returns 1 + len(signal) // hop_length frames.
stft_frames(n) == 1 + n \div PROC_HOP

\* Mutant: istft called without length=, so the overlap-add keeps its own
\* length.
istft_length_natural(n_frames, length) == PROC_HOP * (n_frames - 1)

\* librosa.istft(S, hop_length, length=len(signal)): the overlap-add of F
\* frames is hop * (F - 1) samples long and is cut or zero-padded to length.
istft_length(n_frames, length) == length

\* Mutant: np.pad with mode='edge', repeating the last precomputed column.
frame_gain_edge(bin_gain, n_actual_frames) ==
    [k \in DOMAIN bin_gain |->
        [f \in 1..n_actual_frames |->
            bin_gain[k][Min2(f, Len(bin_gain[k]))]]]

\* processor.py lines 255-263: the columns of bin_gain used for a channel
\* whose STFT has n_actual_frames frames.
frame_gain(bin_gain, n_actual_frames) ==
    [k \in DOMAIN bin_gain |->
        [f \in 1..n_actual_frames |->
            IF f <= Len(bin_gain[k]) THEN bin_gain[k][f] ELSE Q]]

\* processor.py process_channel on one channel [n, x] of a tone at bin tone.
process_channel(signal, tone, bin_gain) ==
    LET n_actual_frames == stft_frames(signal.n)
        bg == frame_gain(bin_gain, n_actual_frames)
        len == istft_length(n_actual_frames, signal.n)
    IN  [n |-> len,
         x |-> [p \in PosIn(len) |->
                  IF p < signal.n
                  THEN IDiv(signal.x[p] * bg[tone][p \div PROC_HOP + 1], Q)
                  ELSE 0]]

\* ----------------------------------------------------------- post conditioner
\* processor.py apply_stereo_widen(audio, 1.3): mid/side with the side
\* scaled by 13/10; anything but two channels is returned as it is.
apply_stereo_widen(audio) ==
    IF audio.ch # 2 THEN audio
    ELSE [audio EXCEPT !.x =
            << [p \in PosIn(audio.n) |->
                  IDiv(10 * (audio.x[1][p] + audio.x[2][p])
                       + 13 * (audio.x[1][p] - audio.x[2][p]), 20)],
               [p \in PosIn(audio.n) |->
                  IDiv(10 * (audio.x[1][p] + audio.x[2][p])
                       - 13 * (audio.x[1][p] - audio.x[2][p]), 20)] >>]

\* np.interp(x, xp, fp): linear inside, the end values outside.
np_interp(x, xp, fp) ==
    IF x <= xp[1] THEN fp[1]
    ELSE IF x >= xp[Len(xp)] THEN fp[Len(xp)]
    ELSE LET j == CHOOSE m \in 1..(Len(xp) - 1) : xp[m] <= x /\ x < xp[m + 1]
         IN  fp[j] + ((fp[j + 1] - fp[j]) * (x - xp[j])) \div (xp[j + 1] - xp[j])

\* processor.py lines 292-295: per frame, the largest gain over the bins,
\* scaled by the largest of all frames (the 1e-8 only keeps 0/0 at 0).
widen_intensity(bin_gain) ==
    LET n_frames == Len(bin_gain[CHOOSE k \in DOMAIN bin_gain : TRUE])
        max_gain_per_frame ==
            [f \in 1..n_frames |-> SetMax({bin_gain[k][f] : k \in DOMAIN bin_gain})]
        top == SeqMax(max_gain_per_frame)
    IN  [f \in 1..n_frames |->
            IF top = Q THEN 0
            ELSE Min2(Max2(((max_gain_per_frame[f] - Q) * Q) \div (top - Q), 0), Q)]

\* processor.py lines 297-306: the widen curve at sample position p, with
\* times scaled by PROC_HOP so that sample times are whole ticks.
widen_sample(p, sr, stft_frame_times, w) ==
    np_interp(p * TicksPerHop(sr),
              [i \in 1..Len(w) |-> stft_frame_times[i] * PROC_HOP], w)

widen_mix(audio, sr, stft_frame_times, bin_gain) ==
    LET w   == widen_intensity(bin_gain)
        wet == apply_stereo_widen(audio)
        c(p) == widen_sample(p, sr, stft_frame_times, w)
    IN  [audio EXCEPT !.x = [ch \in 1..audio.ch |->
            [p \in PosIn(audio.n) |->
                IDiv(audio.x[ch][p] * (Q - c(p)) + wet.x[ch][p] * c(p), Q)]]]

\* np.tanh(k / 20) in 1/Q, rounded to nearest; 1.0 from k = 83 on.
TanhTable ==
    << 50, 100, 149, 197, 245, 291, 336, 380, 422, 462, 501, 537,
       572, 604, 635, 664, 691, 716, 740, 762, 782, 800, 818, 834,
       848, 862, 874, 885, 896, 905, 914, 922, 929, 935, 941, 947,
       952, 956, 960, 964, 967, 970, 973, 976, 978, 980, 982, 984,
       985, 987, 988, 989, 990, 991, 992, 993, 993, 994, 995, 995,
       996, 996, 996, 997, 997, 997, 998, 998, 998, 998, 998, 999,
       999, 999, 999, 999, 999, 999, 999, 999, 999, 999, 1000 >>
tanh20(k) == IF k <= 0 THEN 0
             ELSE IF k >= Len(TanhTable) THEN Q
             ELSE TanhTable[k]

\* processor.py lines 316-323: the soft clip guard on one sample.
CEILING == 980
\* Mutant: the np.sign factor is left out.
clip_guard_nosign(x) ==
    IF Abs(x) > CEILING
    THEN CEILING + RDiv((Q - CEILING)
                        * tanh20(((Abs(x) - CEILING) * 20) \div (Q - CEILING)), Q)
    ELSE x
clip_guard(x) ==
    IF Abs(x) > CEILING
    THEN Sign(x) * (CEILING
                    + RDiv((Q - CEILING)
                           * tanh20(((Abs(x) - CEILING) * 20) \div (Q - CEILING)), Q))
    ELSE x

\* processor.py apply_normalization.  The RMS is kept in 1/(10 Q); the
\* target 10^(-16/20) = 0.158489 is 1585 in that unit.
PEAK_TARGET == 950
\* Mutant: loudness normalization without its peak guard.
apply_normalization_noguard(audio, mode, sample_rate) ==
    IF mode = "peak"
    THEN LET peak == Peak(audio)
         IN  IF peak > 0
             THEN MapSamples(audio, LAMBDA v : IDiv(v * PEAK_TARGET, peak))
             ELSE audio
    ELSE IF mode = "loudness"
    THEN LET rms == IF audio.n * audio.ch = 0 THEN 0
                    ELSE ISqrt((SumSqOver(audio, Samples(audio)) * 100)
                               \div (audio.n * audio.ch))
         IN  IF rms > 0
             THEN MapSamples(audio, LAMBDA v : IDiv(v * 1585, rms))
             ELSE audio
    ELSE audio
apply_normalization(audio, mode, sample_rate) ==
    IF mode = "none" THEN audio
    ELSE IF mode = "peak"
    THEN LET peak == Peak(audio)
         IN  IF peak > 0
             THEN MapSamples(audio, LAMBDA v : IDiv(v * PEAK_TARGET, peak))
             ELSE audio
    ELSE IF mode = "loudness"
    THEN LET rms == IF audio.n * audio.ch = 0 THEN 0
                    ELSE ISqrt((SumSqOver(audio, Samples(audio)) * 100)
                               \div (audio.n * audio.ch))
         IN  IF rms > 0
             THEN LET result == MapSamples(audio, LAMBDA v : IDiv(v * 1585, rms))
                      peak == Peak(result)
                  IN  IF peak > PEAK_TARGET
                      THEN MapSamples(result, LAMBDA v : IDiv(v * PEAK_TARGET, peak))
                      ELSE result
             ELSE audio
    ELSE audio

\* ------------------------------------------------------------ mix analyzer
\* Mutant: a silent instrumental band always gets the cap.
gain_ratio_cap_on_silence(mix_rms, inst_rms) ==
    IF inst_rms = 0 THEN MAX_GAIN * Q
    ELSE Min2(Max2((mix_rms * Q) \div inst_rms, Q), MAX_GAIN * Q)

\* analyzer.py lines 238-241: mix_rms / (inst_rms + eps) clipped to
\* [1.0, MAX_GAIN].  With inst_rms = 0 the quotient is 0 for a silent mix
\* and beyond the cap otherwise; eps only lowers the quotient.
gain_ratio(mix_rms, inst_rms) ==
    IF inst_rms = 0
    THEN IF mix_rms = 0 THEN Q ELSE MAX_GAIN * Q
    ELSE Min2(Max2((mix_rms * Q) \div inst_rms, Q), MAX_GAIN * Q)

median3(a, b, c) ==
    IF (a <= b /\ b <= c) \/ (c <= b /\ b <= a) THEN b
    ELSE IF (b <= a /\ a <= c) \/ (c <= a /\ a <= b) THEN a
    ELSE c

\* scipy.ndimage.median_filter(row, size=3), mode 'reflect': the row is
\* extended by its own end values.
median_filter(row) ==
    [i \in 1..Len(row) |->
        median3(row[Max2(i - 1, 1)], row[i], row[Min2(i + 1, Len(row))])]

\* analyzer.py lines 225-255: ones, overwritten for every band that has
\* bins, then smoothed per band.
gain_ratio_matrix(mix, inst, bin_groups) ==
    [b \in 1..Len(mix) |->
        median_filter(
            [f \in 1..Len(mix[b]) |->
                IF bin_groups[b] = {} THEN Q
                ELSE gain_ratio(mix[b][f], inst[b][f])])]

\* ------------------------------------------------------------------- state
VARIABLES
    \* main.py: the files of the session directory, the content of mode.txt
    \* ("none" when absent), the analyzer that produced the stored matrix
    \* ("none" without one) and, per client connection, the request handler
    stored, mode_txt, matrix_mode, handlers,
    \* analyze_mix_reference: per band and frame, the RMS over the band's
    \* bins of the STFT magnitudes of the reference mix and of the
    \* instrumental (<<>> when the artifact comes from elsewhere)
    mag_mix, mag_inst,
    \* the call: the instrumental file and the arguments of process_audio
    instrumental, intensity_matrix, analysis_frame_times, band_defs,
    eq_level, mode, stereo_widen, normalization, is_wav,
    \* the worker: where process_audio is, and its locals
    pc, audio, total_samples, is_stereo, band_edges, bin_groups,
    stft_frame_times, interp_intensity, gain_matrix, bin_gain,
    \* the audio entering the clip guard and the audio leaving it
    pre_clip, guarded,
    \* what process_audio leaves on disk
    written, tmp_wav, output,
    \* process_audio_async: the shared progress cell, the executor future,
    \* the poller's position and the values sent to the external callback
    last_pct, task_done, ppc, delivered,
    \* every value process_audio has passed to its progress callback, in order
    reported,
    \* main.py: the websockets listening to the session, what was sent to
    \* each of them, and the _broadcast_progress call under way
    conns, ws_log, bc

service_vars == <<stored, mode_txt, matrix_mode, handlers>>
request_vars == <<mag_mix, mag_inst, instrumental, intensity_matrix,
                  analysis_frame_times, band_defs,
                  eq_level, mode, stereo_widen, normalization, is_wav>>
call_vars == <<service_vars, request_vars>>
local_vars == <<audio, total_samples, is_stereo, band_edges, bin_groups,
                stft_frame_times, interp_intensity, gain_matrix, bin_gain>>
post_vars == <<pre_clip, guarded>>
disk_vars == <<written, tmp_wav, output>>
ws_vars == <<conns, ws_log, bc>>
poll_vars == <<task_done, ppc, delivered, ws_vars>>
progress_vars == <<last_pct, reported>>
vars == <<call_vars, local_vars, post_vars, disk_vars, poll_vars, pc, progress_vars>>

NoAudio == [n |-> 0, ch |-> 0, x |-> <<>>]

\* The FFT bins whose rows of bin_gain the model keeps: one bin at least in
\* every band of every plan of the model, and bins outside all bands.
ProbeBins == {2, 10, 20, 40, 100, 400, 800}

\* ------------------------------------------------- analyze_mix_reference
\* analyzer.py lines 214-260, from the band RMS of the two magnitude
\* spectrograms to the persisted matrix, frame times and band definitions.
AnalyzeMix ==
    /\ pc = "analyze"
    /\ LET edges == compute_band_edges(Len(mag_mix), ANALYSIS_SR)
       IN  /\ intensity_matrix' = gain_ratio_matrix(
                  mag_mix, mag_inst,
                  map_bins_to_bands(N_FFT, ANALYSIS_SR, edges))
           /\ analysis_frame_times' = frames_to_time(Len(mag_mix[1]), ANALYSIS_SR)
           /\ band_defs' = build_band_definitions(edges)
    /\ pc' = "load"
    /\ UNCHANGED <<service_vars, mag_mix, mag_inst, instrumental, eq_level,
                   mode, stereo_widen, normalization, is_wav, local_vars,
                   post_vars, disk_vars, poll_vars, progress_vars>>

\* ------------------------------------------------------------ process_audio
\* processor.py line 374: sync_progress, the callback the worker is given.
sync_progress(pct) == last_pct' = pct /\ reported' = Append(reported, pct)

\* Mutant: the widening step reports 85.
Milestone_widen85(step) ==
    CASE step = "load"      -> 5
      [] step = "plan"      -> 10
      [] step = "gain"      -> 15
      [] step = "expand"    -> 20
      [] step = "left"      -> 45
      [] step = "right"     -> 70
      [] step = "mono"      -> 70
      [] step = "widen"     -> 85
      [] step = "normalize" -> 90
      [] step = "write"     -> 95
      [] step = "encode"    -> 100

\* Mutant: the left channel reports a value above the right channel's.
Milestone_left75(step) ==
    CASE step = "load"      -> 5
      [] step = "plan"      -> 10
      [] step = "gain"      -> 15
      [] step = "expand"    -> 20
      [] step = "left"      -> 75
      [] step = "right"     -> 70
      [] step = "mono"      -> 70
      [] step = "widen"     -> 80
      [] step = "normalize" -> 90
      [] step = "write"     -> 95
      [] step = "encode"    -> 100

\* The milestone process_audio reports at the end of each step.
Milestone(step) ==
    CASE step = "load"      -> 5
      [] step = "plan"      -> 10
      [] step = "gain"      -> 15
      [] step = "expand"    -> 20
      [] step = "left"      -> 45
      [] step = "right"     -> 70
      [] step = "mono"      -> 70
      [] step = "widen"     -> 80
      [] step = "normalize" -> 90
      [] step = "write"     -> 95
      [] step = "encode"    -> 100

\* Lines 201-206: sf.read; a file that cannot be decoded raises.
Load ==
    /\ pc = "load"
    /\ \E decoded \in BOOLEAN :
        IF decoded
        THEN /\ audio' = [n |-> instrumental.n, ch |-> instrumental.ch,
                          x |-> instrumental.x]
             /\ total_samples' = instrumental.n
             /\ is_stereo' = (instrumental.ch = 2)
             /\ sync_progress(Milestone("load"))
             /\ pc' = "plan"
        ELSE /\ pc' = "raised"
             /\ UNCHANGED <<audio, total_samples, is_stereo, progress_vars>>
    /\ UNCHANGED <<call_vars, band_edges, bin_groups, stft_frame_times,
                   interp_intensity, gain_matrix, bin_gain, post_vars,
                   disk_vars, poll_vars>>

\* Lines 215-217.
n_stft_frames(n_samples) ==
    LET n == 1 + (n_samples - PROC_N_FFT) \div PROC_HOP
    IN  IF n <= 0 THEN 1 ELSE n

\* Lines 208-223: the band plan at the instrumental's sample rate and the
\* frame times of the instrumental.  Of each bin group the state keeps the
\* bins of ProbeBins.
Plan ==
    /\ pc = "plan"
    /\ LET edges == compute_band_edges(Len(band_defs), instrumental.sr)
       IN  /\ band_edges' = edges
           /\ bin_groups' = [b \in 1..Len(band_defs) |->
                  map_bins_to_bands(PROC_N_FFT, instrumental.sr, edges)[b]
                      \cap ProbeBins]
    /\ stft_frame_times' = frames_to_time(n_stft_frames(total_samples),
                                          instrumental.sr)
    /\ sync_progress(Milestone("plan"))
    /\ pc' = "gain"
    /\ UNCHANGED <<call_vars, audio, total_samples, is_stereo, interp_intensity,
                   gain_matrix, bin_gain, post_vars, disk_vars, poll_vars>>

\* Lines 225-238.
Gain ==
    /\ pc = "gain"
    /\ LET interp == _interpolate_intensity_to_stft_frames(
                         intensity_matrix, analysis_frame_times,
                         stft_frame_times, mode)
       IN  /\ interp_intensity' = interp
           /\ gain_matrix' = _compute_gain_matrix(interp, eq_level, band_defs, mode)
    /\ sync_progress(Milestone("gain"))
    /\ pc' = "expand"
    /\ UNCHANGED <<call_vars, audio, total_samples, is_stereo, band_edges,
                   bin_groups, stft_frame_times, bin_gain, post_vars,
                   disk_vars, poll_vars>>

\* Mutant: every banded bin is given the first band's row.
expand_row_first(k, groups, gains, n_frames) ==
    LET hit == {b \in 1..Len(groups) : k \in groups[b]}
    IN  IF hit = {} THEN [f \in 1..n_frames |-> Q]
        ELSE gains[1]

\* Mutant: bin_gain allocated with np.zeros instead of np.ones.
expand_row_zeros(k, groups, gains, n_frames) ==
    LET hit == {b \in 1..Len(groups) : k \in groups[b]}
    IN  IF hit = {} THEN [f \in 1..n_frames |-> 0]
        ELSE gains[SetMax(hit)]

\* Lines 241-246 for the row of bin k: ones, overwritten by the row of every
\* band whose group holds k, in band order.
expand_row(k, groups, gains, n_frames) ==
    LET hit == {b \in 1..Len(groups) : k \in groups[b]}
    IN  IF hit = {} THEN [f \in 1..n_frames |-> Q]
        ELSE gains[SetMax(hit)]

Expand ==
    /\ pc = "expand"
    /\ bin_gain' = [k \in ProbeBins |->
                      expand_row(k, bin_groups, gain_matrix, Len(stft_frame_times))]
    /\ sync_progress(Milestone("expand"))
    /\ pc' = IF is_stereo THEN "left" ELSE "mono"
    /\ UNCHANGED <<call_vars, audio, total_samples, is_stereo, band_edges,
                   bin_groups, stft_frame_times, interp_intensity, gain_matrix,
                   post_vars, disk_vars, poll_vars>>

\* One channel of the buffer as process_channel takes it.
Channel(c) == [n |-> audio.n, x |-> audio.x[c]]

\* Lines 272-282 and 284-286.  librosa.stft raises on an empty signal; a
\* result of another length cannot be stored into its column of the buffer.
ProcessChannel(step, c, next) ==
    /\ pc = step
    /\ LET result == process_channel(Channel(c), instrumental.tone, bin_gain)
       IN  IF audio.n = 0 \/ (is_stereo /\ result.n # audio.n)
           THEN /\ pc' = "raised"
                /\ UNCHANGED <<audio, progress_vars>>
           ELSE /\ audio' = [audio EXCEPT !.n = result.n, !.x[c] = result.x]
                /\ sync_progress(Milestone(step))
                /\ pc' = next
    /\ UNCHANGED <<call_vars, total_samples, is_stereo, band_edges, bin_groups,
                   stft_frame_times, interp_intensity, gain_matrix, bin_gain,
                   post_vars, disk_vars, poll_vars>>

Left == ProcessChannel("left", 1, "right")
Right == ProcessChannel("right", 2, "widen")
Mono == ProcessChannel("mono", 1, "widen")

\* Lines 288-312.
Widen ==
    /\ pc = "widen"
    /\ audio' = IF stereo_widen /\ is_stereo
                THEN widen_mix(audio, instrumental.sr, stft_frame_times, bin_gain)
                ELSE audio
    /\ bin_gain' = <<>>
    /\ sync_progress(Milestone("widen"))
    /\ pc' = "clip"
    /\ UNCHANGED <<call_vars, total_samples, is_stereo, band_edges, bin_groups,
                   stft_frame_times, interp_intensity, gain_matrix, post_vars,
                   disk_vars, poll_vars>>

\* Lines 314-324.
ClipGuard ==
    /\ pc = "clip"
    /\ pre_clip' = audio
    /\ audio' = MapSamples(audio, clip_guard)
    /\ pc' = "normalize"
    /\ UNCHANGED <<call_vars, total_samples, is_stereo, band_edges, bin_groups,
                   stft_frame_times, interp_intensity, gain_matrix, bin_gain,
                   guarded, disk_vars, poll_vars, progress_vars>>

\* Lines 326-330.
Normalize ==
    /\ pc = "normalize"
    /\ guarded' = audio
    /\ audio' = apply_normalization(audio, normalization, instrumental.sr)
    /\ sync_progress(Milestone("normalize"))
    /\ pc' = "write"
    /\ UNCHANGED <<call_vars, total_samples, is_stereo, band_edges, bin_groups,
                   stft_frame_times, interp_intensity, gain_matrix, bin_gain,
                   pre_clip, disk_vars, poll_vars>>

\* Lines 332-340: sf.write to output_path, or to output_path + '.tmp.wav'.
Write ==
    /\ pc = "write"
    /\ written' = audio
    /\ tmp_wav' = ~is_wav
    /\ output' = IF is_wav THEN "wav" ELSE output
    /\ sync_progress(Milestone("write"))
    /\ pc' = "encode"
    /\ UNCHANGED <<call_vars, local_vars, post_vars, poll_vars>>

\* Mutant: the intermediate is removed in a finally clause.
Encode_always_remove ==
    /\ pc = "encode"
    /\ \E encoded \in BOOLEAN :
        IF is_wav
        THEN /\ sync_progress(Milestone("encode"))
             /\ pc' = "done"
             /\ UNCHANGED <<tmp_wav, output>>
        ELSE IF encoded
        THEN /\ output' = "encoded"
             /\ tmp_wav' = FALSE
             /\ sync_progress(Milestone("encode"))
             /\ pc' = "done"
        ELSE /\ pc' = "raised"
             /\ tmp_wav' = FALSE
             /\ UNCHANGED <<output, progress_vars>>
    /\ UNCHANGED <<call_vars, local_vars, post_vars, written, poll_vars>>

\* Lines 342-355: ffmpeg on the intermediate; check=True raises when it
\* fails, before os.remove.
Encode ==
    /\ pc = "encode"
    /\ \E encoded \in BOOLEAN :
        IF is_wav
        THEN /\ sync_progress(Milestone("encode"))
             /\ pc' = "done"
             /\ UNCHANGED <<tmp_wav, output>>
        ELSE IF encoded
        THEN /\ output' = "encoded"
             /\ tmp_wav' = FALSE
             /\ sync_progress(Milestone("encode"))
             /\ pc' = "done"
        ELSE /\ pc' = "raised"
             /\ UNCHANGED <<tmp_wav, output, progress_vars>>
    /\ UNCHANGED <<call_vars, local_vars, post_vars, written, poll_vars>>

process_audio ==
    \/ Load \/ Plan \/ Gain \/ Expand \/ Left \/ Right \/ Mono
    \/ Widen \/ ClipGuard \/ Normalize \/ Write \/ Encode

\* ------------------------------------------------------ process_audio_async
\* No broadcast is under way.
NoBroadcast == [percent |-> 0, todo |-> <<>>, then |-> "none"]

\* main.py lines 255-256 and 336-337: the callback process hands to the
\* poller enters _broadcast_progress, which copies the session's listener
\* list; with no listener it returns without suspending.
on_progress(pct, then) ==
    /\ IF conns = <<>>
       THEN ppc' = then /\ UNCHANGED bc
       ELSE ppc' = "broadcast" /\ bc' = [percent |-> pct, todo |-> conns, then |-> then]
    /\ UNCHANGED <<conns, ws_log>>

\* A listener nothing was sent to yet.
NoLog == [tried |-> <<>>, failed |-> 0, last |-> TRUE]

\* What a listener's log gains when ws.send_json was awaited for it: the
\* value, one more failure when the send raised, and how this send ended.
Sent(log, ws, pct, ok) == [log EXCEPT ![ws] = [tried |-> Append(@.tried, pct), failed |-> @.failed + (IF ok THEN 0 ELSE 1), last |-> ok]]

\* Mutant: one try around the whole loop, so the first failing send ends
\* the broadcast.
_broadcast_progress_abort ==
    /\ ppc = "broadcast"
    /\ \E ok \in BOOLEAN :
          /\ ws_log' = Sent(ws_log, Head(bc.todo), bc.percent, ok)
          /\ IF Tail(bc.todo) = <<>> \/ ~ok
             THEN ppc' = bc.then /\ bc' = NoBroadcast
             ELSE bc' = [bc EXCEPT !.todo = Tail(@)] /\ UNCHANGED ppc
    /\ UNCHANGED <<call_vars, local_vars, post_vars, disk_vars, conns,
                   task_done, delivered, pc, progress_vars>>

\* main.py lines 337-341, one turn of the loop: the value is sent to the
\* next listener of the copy; the send succeeds or raises, and an exception
\* is passed over. After the last listener the callback returns.
_broadcast_progress ==
    /\ ppc = "broadcast"
    /\ \E ok \in BOOLEAN :
          ws_log' = Sent(ws_log, Head(bc.todo), bc.percent, ok)
    /\ IF Tail(bc.todo) = <<>>
       THEN ppc' = bc.then /\ bc' = NoBroadcast
       ELSE bc' = [bc EXCEPT !.todo = Tail(@)] /\ UNCHANGED ppc
    /\ UNCHANGED <<call_vars, local_vars, post_vars, disk_vars, conns,
                   task_done, delivered, pc, progress_vars>>

\* run_in_executor resolves the future some time after the worker returned
\* or raised.
TaskComplete ==
    /\ ppc # "off"
    /\ pc \in {"done", "raised"}
    /\ ~task_done
    /\ task_done' = TRUE
    /\ UNCHANGED <<call_vars, local_vars, post_vars, disk_vars, ws_vars, ppc, delivered,
                   pc, progress_vars>>

\* Line 389: while not task.done().
PollCheck ==
    /\ ppc = "check"
    /\ task_done \/ Len(delivered) < MaxPolls
    /\ ppc' = IF task_done THEN "join" ELSE "test"
    /\ UNCHANGED <<call_vars, local_vars, post_vars, disk_vars, ws_vars,
                   task_done, delivered, pc, progress_vars>>

\* Line 390: if progress_callback and last_pct[0] > 0.
PollTest ==
    /\ ppc = "test"
    /\ ppc' = IF last_pct > 0 THEN "send" ELSE "sleep"
    /\ UNCHANGED <<call_vars, local_vars, post_vars, disk_vars, ws_vars,
                   task_done, delivered, pc, progress_vars>>

\* Line 391: await progress_callback(last_pct[0]).
PollSend ==
    /\ ppc = "send"
    /\ delivered' = Append(delivered, last_pct)
    /\ on_progress(last_pct, "sleep")
    /\ UNCHANGED <<call_vars, local_vars, post_vars, disk_vars, task_done,
                   pc, progress_vars>>

\* Line 392: await asyncio.sleep(0.3).
PollSleep ==
    /\ ppc = "sleep"
    /\ ppc' = "check"
    /\ UNCHANGED <<call_vars, local_vars, post_vars, disk_vars, ws_vars,
                   task_done, delivered, pc, progress_vars>>

\* Mutant: the result of the future is never looked at.
PollJoin_swallow ==
    /\ ppc = "join"
    /\ ppc' = "final"
    /\ UNCHANGED <<call_vars, local_vars, post_vars, disk_vars, ws_vars,
                   task_done, delivered, pc, progress_vars>>

\* Line 395: await task re-raises what the worker raised.
PollJoin ==
    /\ ppc = "join"
    /\ ppc' = IF pc = "raised" THEN "raised" ELSE "final"
    /\ UNCHANGED <<call_vars, local_vars, post_vars, disk_vars, ws_vars,
                   task_done, delivered, pc, progress_vars>>

\* Lines 397-398: await progress_callback(100).
PollFinal ==
    /\ ppc = "final"
    /\ delivered' = Append(delivered, 100)
    /\ on_progress(100, "returned")
    /\ UNCHANGED <<call_vars, local_vars, post_vars, disk_vars, task_done,
                   pc, progress_vars>>

process_audio_async ==
    \/ TaskComplete \/ PollCheck \/ PollTest \/ PollSend \/ PollSleep
    \/ PollJoin \/ PollFinal

\* ------------------------------------------------------------------ inputs
SampleVals == {-700, 0, 990}
VocalVals == {0, 500, Q}
MixVals == {Q, 4 * Q, MAX_GAIN * Q}
ModeVals(m) == IF m = "mix" THEN MixVals ELSE VocalVals

\* Instrumental files: sample rate, tone bin, length, channels, samples.
Files(rates, tones, lengths, channels, vals) ==
    UNION {
        {[sr |-> r, tone |-> t, n |-> n, ch |-> c, x |-> x] :
            x \in [1..c -> [PosIn(n) -> vals]]} :
        r \in rates, t \in tones, n \in lengths, c \in channels}

\* What an analysis at ANALYSIS_SR persists: the matrix, the frame times
\* and the band definitions (analyzer.py lines 97-107, 214-221).
Artifacts(band_counts, frame_counts, values) ==
    UNION {
        {[matrix |-> m,
          times |-> frames_to_time(f, ANALYSIS_SR),
          defs |-> build_band_definitions(compute_band_edges(nb, ANALYSIS_SR))] :
            m \in [1..nb -> [1..f -> values]]} :
        nb \in band_counts, f \in frame_counts}

\* ---------------------------------------------------------------------------
\* main.py: the HTTP endpoints over one session directory.

\* The client connections that issue requests.
Clients == {"c1", "c2"}

\* intensity_matrix.npy, frame_times.npy, band_defs.json.
CachedArtifacts == {"matrix", "times", "bands"}
SessionFiles == {"vocal", "instrumental"} \cup CachedArtifacts

\* The form fields of analyze and reanalyze: in range, and one field out of
\* the declared range at a time (a band count of 30 is in range for mix
\* only).
AnalysisForms ==
    {[mode |-> m, sensitivity |-> 5, band_count |-> 12, eq_level |-> 0, normalization |-> "none"] : m \in {"vocal", "mix", "karaoke"}}
    \cup {[mode |-> "vocal", sensitivity |-> s, band_count |-> 12, eq_level |-> 0, normalization |-> "none"] : s \in {0, 11}}
    \cup {[mode |-> m, sensitivity |-> 5, band_count |-> 5, eq_level |-> 0, normalization |-> "none"] : m \in {"vocal", "mix"}}
    \cup {[mode |-> "vocal", sensitivity |-> 5, band_count |-> 30, eq_level |-> 0, normalization |-> "none"]}

\* The JSON bodies of process.
ProcessBodies ==
    AnalysisForms
    \cup {[mode |-> "mix", sensitivity |-> 5, band_count |-> 12, eq_level |-> 11, normalization |-> "none"]}
    \cup {[mode |-> "mix", sensitivity |-> 5, band_count |-> 12, eq_level |-> 0, normalization |-> "limiter"]}

\* ProcessRequest: the field constraints pydantic enforces.
ProcessRequest(req) ==
    /\ req.mode \in {"vocal", "mix"}
    /\ req.eq_level >= 0 /\ req.eq_level <= 10
    /\ req.band_count >= 6 /\ req.band_count <= 32
    /\ req.sensitivity >= 1 /\ req.sensitivity <= 10
    /\ req.normalization \in {"none", "peak", "loudness"}

NoRequest == [mode |-> "none", sensitivity |-> 0, band_count |-> 0, eq_level |-> 0, normalization |-> "none"]

\* A handler before a request arrives.
IdleHandler ==
    [state |-> "idle", endpoint |-> "none", req |-> NoRequest, seen |-> {},
     outcome |-> "none", ran |-> FALSE, persisted |-> FALSE, started |-> FALSE,
     mode |-> "none", loaded |-> "none"]

\* The analyzer a mode string selects: analyze_mix_reference for "mix",
\* analyze_vocal_multiband for anything else; process_audio picks its gain
\* formula and fill value the same way.
AnalyzerOf(m) == IF m = "mix" THEN "mix" ELSE "vocal"

\* The session id is made by analyze and reaches the client with the last
\* event of the stream: no other request names the session before that.
SessionKnown == \A c \in Clients : handlers[c].state # "analyzing"

\* The handler's record once the request req found the files seen.
Handling(endpoint, req, seen) ==
    [IdleHandler EXCEPT !.endpoint = endpoint, !.req = req, !.seen = seen]

\* The response leaves the handler.
Responded(h, outcome) == [h EXCEPT !.state = "responded", !.outcome = outcome]

\* The samples, the worker and the poller play no part in the endpoints.
dsp_vars == <<request_vars, local_vars, post_vars, disk_vars, poll_vars, pc, progress_vars>>

\* POST /api/analyze up to its first suspension: the session id is new, the
\* extensions are checked, both uploads and mode.txt are saved.
analyze(c) ==
    /\ handlers[c].state = "idle"
    /\ stored = {}
    /\ mode_txt = "none"
    /\ \E req \in AnalysisForms, ext_ok \in BOOLEAN :
          LET h == Handling("analyze", req, stored) IN
          IF ~ext_ok
          THEN /\ handlers' = [handlers EXCEPT ![c] = Responded(h, "rejected")]
               /\ UNCHANGED <<stored, mode_txt>>
          ELSE /\ stored' = {"vocal", "instrumental"}
               /\ mode_txt' = req.mode
               /\ handlers' = [handlers EXCEPT ![c] = [h EXCEPT !.state = "analyzing", !.persisted = TRUE]]
    /\ UNCHANGED <<matrix_mode, dsp_vars>>

\* The rest of the analyze stream: the analyzer runs in a thread (any mode
\* but "mix" runs the vocal analyzer), then the three artifacts are saved.
event_stream(c) ==
    /\ handlers[c].state = "analyzing"
    /\ \E ok \in BOOLEAN :
          LET h == [handlers[c] EXCEPT !.ran = TRUE] IN
          IF ok
          THEN /\ stored' = stored \cup CachedArtifacts
               /\ matrix_mode' = AnalyzerOf(h.req.mode)
               /\ handlers' = [handlers EXCEPT ![c] = Responded(h, "analyzed")]
          ELSE /\ handlers' = [handlers EXCEPT ![c] = Responded(h, "analysis_failed")]
               /\ UNCHANGED <<stored, matrix_mode>>
    /\ UNCHANGED <<mode_txt, dsp_vars>>

\* POST /api/reanalyze, which never suspends: mode.txt is rewritten, the
\* analyzer runs with the form's fields, the three artifacts are saved.
reanalyze(c) ==
    /\ handlers[c].state = "idle"
    /\ SessionKnown
    /\ \E req \in AnalysisForms, ok \in BOOLEAN :
          LET h == Handling("reanalyze", req, stored) IN
          IF ~({"vocal", "instrumental"} \subseteq stored)
          THEN /\ handlers' = [handlers EXCEPT ![c] = Responded(h, "not_found")]
               /\ UNCHANGED <<stored, mode_txt, matrix_mode>>
          ELSE /\ mode_txt' = req.mode
               /\ IF ok
                  THEN /\ stored' = stored \cup CachedArtifacts
                       /\ matrix_mode' = AnalyzerOf(req.mode)
                       /\ handlers' = [handlers EXCEPT ![c] = Responded([h EXCEPT !.ran = TRUE, !.persisted = TRUE], "analyzed")]
                  ELSE /\ handlers' = [handlers EXCEPT ![c] = Responded([h EXCEPT !.ran = TRUE, !.persisted = TRUE], "analysis_failed")]
                       /\ UNCHANGED <<stored, matrix_mode>>
    /\ UNCHANGED dsp_vars

\* POST /api/process up to the await of process_audio_async: validation,
\* the instrumental, the effective mode, the cache test on the matrix file
\* alone, then either the recomputation or the load of the three artifacts.
process(c) ==
    /\ handlers[c].state = "idle"
    /\ SessionKnown
    /\ \E req \in ProcessBodies, ok \in BOOLEAN :
          LET h == Handling("process", req, stored)
              m == IF mode_txt # "none" THEN mode_txt ELSE req.mode
          IN
          IF ~ProcessRequest(req)
          THEN /\ handlers' = [handlers EXCEPT ![c] = Responded(h, "rejected")]
               /\ UNCHANGED <<stored, matrix_mode>>
          ELSE IF "instrumental" \notin stored
          THEN /\ handlers' = [handlers EXCEPT ![c] = Responded(h, "not_found")]
               /\ UNCHANGED <<stored, matrix_mode>>
          ELSE IF "matrix" \notin stored
          THEN IF "vocal" \notin stored
               THEN /\ handlers' = [handlers EXCEPT ![c] = Responded(h, "reanalyze_required")]
                    /\ UNCHANGED <<stored, matrix_mode>>
               ELSE IF ok
               THEN /\ stored' = stored \cup CachedArtifacts
                    /\ matrix_mode' = AnalyzerOf(m)
                    /\ handlers' = [handlers EXCEPT ![c] = [h EXCEPT !.state = "processing", !.ran = TRUE, !.persisted = TRUE, !.started = TRUE, !.mode = m, !.loaded = AnalyzerOf(m)]]
               ELSE /\ handlers' = [handlers EXCEPT ![c] = Responded([h EXCEPT !.ran = TRUE], "analysis_failed")]
                    /\ UNCHANGED <<stored, matrix_mode>>
          ELSE IF ~({"times", "bands"} \subseteq stored)
          THEN /\ handlers' = [handlers EXCEPT ![c] = Responded(h, "load_failed")]
               /\ UNCHANGED <<stored, matrix_mode>>
          ELSE /\ handlers' = [handlers EXCEPT ![c] = [h EXCEPT !.state = "processing", !.started = TRUE, !.mode = m, !.loaded = matrix_mode]]
               /\ UNCHANGED <<stored, matrix_mode>>
    /\ UNCHANGED <<mode_txt, dsp_vars>>

\* process after the await: the worker has written enhanced_<sid><ext> and
\* the response is built, or its exception became a 500.
process_returns(c) ==
    /\ handlers[c].state = "processing"
    /\ \E ok \in BOOLEAN :
          handlers' = [handlers EXCEPT ![c] = Responded(handlers[c], IF ok THEN "processed" ELSE "processing_failed")]
    /\ UNCHANGED <<stored, mode_txt, matrix_mode, dsp_vars>>

\* The client has its response and may send its next request.
NextRequest(c) ==
    /\ handlers[c].state = "responded"
    /\ handlers' = [handlers EXCEPT ![c] = IdleHandler]
    /\ UNCHANGED <<stored, mode_txt, matrix_mode, dsp_vars>>

\* No endpoint is involved and no websocket listens.
NoService ==
    /\ stored = {}
    /\ mode_txt = "none"
    /\ matrix_mode = "none"
    /\ handlers = [c \in Clients |-> IdleHandler]
    /\ conns = <<>>
    /\ ws_log = <<>>

\* The worker's locals, the disk and the poller before process_audio runs.
Fresh(poller) ==
    /\ audio = NoAudio
    /\ total_samples = 0
    /\ is_stereo = FALSE
    /\ band_edges = <<>>
    /\ bin_groups = <<>>
    /\ stft_frame_times = <<>>
    /\ interp_intensity = <<>>
    /\ gain_matrix = <<>>
    /\ bin_gain = <<>>
    /\ pre_clip = NoAudio
    /\ guarded = NoAudio
    /\ written = NoAudio
    /\ tmp_wav = FALSE
    /\ output = "none"
    /\ last_pct = 0
    /\ reported = <<>>
    /\ task_done = FALSE
    /\ ppc = poller
    /\ delivered = <<>>
    /\ bc = NoBroadcast

\* process_audio called with a persisted artifact.
Called(art, poller) ==
    /\ mag_mix = <<>>
    /\ mag_inst = <<>>
    /\ intensity_matrix = art.matrix
    /\ analysis_frame_times = art.times
    /\ band_defs = art.defs
    /\ pc = "load"
    /\ NoService
    /\ Fresh(poller)

\* process_audio on its own: every sample content, with one band.
Init ==
    /\ instrumental \in Files({44100}, {2, 100}, {0, 1, 1200, 3100}, {1, 2}, SampleVals)
    /\ mode \in {"vocal", "mix"}
    /\ eq_level \in {0, 5, 10}
    /\ stereo_widen \in BOOLEAN
    /\ normalization \in {"none", "peak", "loudness"}
    /\ is_wav \in BOOLEAN
    /\ \E art \in Artifacts({1}, {2}, {SetMax(ModeVals(mode))}) : Called(art, "off")

Next == process_audio

Spec == Init /\ [][Next]_vars

\* process_audio_async: the worker thread and the polling coroutine
\* interleave freely (lines 380-398).
InitAsync ==
    /\ instrumental \in Files({44100}, {100}, {0, 1}, {1, 2}, SampleVals)
    /\ mode = "mix"
    /\ eq_level = 5
    /\ stereo_widen = TRUE
    /\ normalization = "none"
    /\ is_wav \in BOOLEAN
    /\ \E art \in Artifacts({1}, {2}, {4 * Q}) : Called(art, "check")

NextAsync == process_audio \/ process_audio_async

SpecAsync == InitAsync /\ [][NextAsync]_vars

\* process with websockets listening to the session: the worker, the
\* poller and the broadcast of every value to the listeners, each send
\* free to fail.
Listeners == {"w1", "w2"}
ListenerLists == {<<"w1">>, <<"w1", "w2">>}

InitProgress ==
    /\ instrumental \in Files({44100}, {100}, {1}, {2}, {990})
    /\ mode = "mix"
    /\ eq_level = 5
    /\ stereo_widen = TRUE
    /\ normalization = "none"
    /\ is_wav = FALSE
    /\ stored = SessionFiles
    /\ mode_txt = "mix"
    /\ matrix_mode = "mix"
    /\ handlers = [c \in Clients |-> IdleHandler]
    /\ conns \in ListenerLists
    /\ ws_log = [w \in Listeners |-> NoLog]
    /\ mag_mix = <<>>
    /\ mag_inst = <<>>
    /\ \E art \in Artifacts({1}, {2}, {4 * Q}) :
          /\ intensity_matrix = art.matrix
          /\ analysis_frame_times = art.times
          /\ band_defs = art.defs
    /\ pc = "load"
    /\ Fresh("check")

NextProgress == process_audio \/ process_audio_async \/ _broadcast_progress

SpecProgress == InitProgress /\ [][NextProgress]_vars

\* The gain pipeline of process_audio up to the per-bin gains: matrices of
\* either analyzer under either mode, instrumentals at the analysis rate
\* and at other rates, shorter and longer than the analysis.
InitGain ==
    /\ instrumental \in Files({ANALYSIS_SR, 44100, 48000}, {100},
                              {1200, 3100, 3600}, {1}, {990})
    /\ mode \in {"vocal", "mix"}
    /\ eq_level \in 0..10
    /\ stereo_widen = FALSE
    /\ normalization = "none"
    /\ is_wav = TRUE
    /\ \E art \in Artifacts({1}, 2..MaxFrames, VocalVals \cup MixVals)
                    \cup Artifacts({2}, {2}, {0, Q, 4 * Q})
                    \cup Artifacts({1}, {2}, {Q, 12 * Q}) :
          Called(art, "off")

NextGain == Load \/ Plan \/ Gain \/ Expand

SpecGain == InitGain /\ [][NextGain]_vars

\* _compute_gain_matrix in vocal mode: band definitions as the analyzer
\* writes them for 8 bands, and definitions of one and two bands whose
\* centers sit on and beside the steps of the frequency ladder (half-Hz).
CenterVals == {199, 200, 399, 400, 8000, 8001, 12000, 12001}

\* The definitions of Len(centers) bands with the given centers.
LadderDefs(centers) ==
    LET defs == build_band_definitions(compute_band_edges(Len(centers), ANALYSIS_SR))
    IN  [b \in 1..Len(centers) |-> [defs[b] EXCEPT !.center_hz = centers[b]]]

VocalArtifacts ==
    {[matrix |-> m, times |-> frames_to_time(2, ANALYSIS_SR), defs |-> LadderDefs(<<c>>)] :
        m \in [1..1 -> [1..2 -> VocalVals]], c \in CenterVals}
    \cup {[matrix |-> m, times |-> frames_to_time(2, ANALYSIS_SR), defs |-> LadderDefs(<<c1, c2>>)] :
        m \in [1..2 -> [1..2 -> {500, Q}]], c1 \in {199, 400}, c2 \in {8001, 12001}}
    \cup {[matrix |-> [b \in 1..8 |-> r], times |-> frames_to_time(2, ANALYSIS_SR), defs |-> build_band_definitions(compute_band_edges(8, ANALYSIS_SR))] :
        r \in [1..2 -> VocalVals]}

InitVocal ==
    /\ instrumental \in Files({ANALYSIS_SR, 44100}, {100}, {3100}, {1}, {990})
    /\ mode = "vocal"
    /\ eq_level \in 0..10
    /\ stereo_widen = FALSE
    /\ normalization = "none"
    /\ is_wav = TRUE
    /\ \E art \in VocalArtifacts : Called(art, "off")

NextVocal == Load \/ Plan \/ Gain

SpecVocal == InitVocal /\ [][NextVocal]_vars

\* Mix analysis followed by the gain pipeline of process_audio in mix mode.
RmsVals == {0, 500, 2000}
Spectra(band_counts, frame_counts, values) ==
    UNION {[1..nb -> [1..f -> values]] : nb \in band_counts, f \in frame_counts}

MixSpectra ==
    Spectra({1}, {2}, RmsVals) \cup Spectra({1}, 2..MaxFrames, {0, 2000})
        \cup Spectra({2}, {2}, {0, 2000})

InitMix ==
    /\ mag_mix \in MixSpectra
    /\ mag_inst \in MixSpectra
    /\ Len(mag_inst) = Len(mag_mix)
    /\ Len(mag_inst[1]) = Len(mag_mix[1])
    /\ instrumental \in Files({44100}, {100}, {3100}, {1}, {990})
    /\ mode = "mix"
    /\ eq_level \in 0..10
    /\ stereo_widen = FALSE
    /\ normalization = "none"
    /\ is_wav = TRUE
    /\ intensity_matrix = <<>>
    /\ analysis_frame_times = <<>>
    /\ band_defs = <<>>
    /\ pc = "analyze"
    /\ NoService
    /\ Fresh("off")

NextMix == AnalyzeMix \/ Load \/ Plan \/ Gain \/ Expand

SpecMix == InitMix /\ [][NextMix]_vars

\* The endpoints over one session directory in any state the clients or the
\* host may have left it in; the worker itself is not run.
InitService ==
    /\ stored \in SUBSET SessionFiles
    /\ mode_txt \in {"none", "vocal", "mix"}
    /\ "matrix" \in stored => mode_txt # "none"
    /\ matrix_mode = IF "matrix" \in stored THEN mode_txt ELSE "none"
    /\ handlers = [c \in Clients |-> IdleHandler]
    /\ conns = <<>>
    /\ ws_log = <<>>
    /\ instrumental \in Files({44100}, {100}, {3100}, {1}, {990})
    /\ mode = "mix"
    /\ eq_level = 0
    /\ stereo_widen = FALSE
    /\ normalization = "none"
    /\ is_wav = TRUE
    /\ mag_mix = <<>>
    /\ mag_inst = <<>>
    /\ intensity_matrix = <<>>
    /\ analysis_frame_times = <<>>
    /\ band_defs = <<>>
    /\ pc = "load"
    /\ Fresh("off")

NextService ==
    \E c \in Clients :
        \/ analyze(c)
        \/ event_stream(c)
        \/ reanalyze(c)
        \/ process(c)
        \/ process_returns(c)
        \/ NextRequest(c)

SpecService == InitService /\ [][NextService]_vars

\* The band plan of process_audio for instrumentals of several sample
\* rates, against analyses of 1, 2, ..., 2^MaxLevel bands.
BandCounts == {Pow2(l) : l \in 0..MaxLevel}

InitBands ==
    /\ instrumental \in Files({8000, 16000, ANALYSIS_SR, 44100, 48000}, {100},
                              {1200}, {1, 2}, {0, 990})
    /\ mode \in {"vocal", "mix"}
    /\ eq_level = 5
    /\ stereo_widen = FALSE
    /\ normalization = "none"
    /\ is_wav = TRUE
    /\ \E art \in Artifacts(BandCounts, {2}, {Q}) : Called(art, "off")

NextBands == Load \/ Plan

SpecBands == InitBands /\ [][NextBands]_vars

\* ------------------------------------------------------------ properties
InputAudio == [n |-> instrumental.n, ch |-> instrumental.ch, x |-> instrumental.x]
Bypass == eq_level = 0 /\ normalization = "none"
Wrote == written # NoAudio

\* Every non-empty bin group and the bins outside all groups are probed.
ProbeCover ==
    bin_groups # <<>> =>
        LET full == map_bins_to_bands(PROC_N_FFT, instrumental.sr, band_edges)
        IN  /\ \A b \in 1..Len(full) : full[b] # {} => bin_groups[b] # {}
            /\ \E k \in ProbeBins : \A b \in 1..Len(full) : k \notin full[b]

C7_ClipGuard ==
    pc = "normalize" =>
        \A i \in Samples(pre_clip) :
            LET x == pre_clip.x[i[1]][i[2]]
                y == audio.x[i[1]][i[2]]
            IN  /\ Abs(x) <= CEILING => y = x
                /\ Abs(x) > CEILING =>
                      /\ Sign(y) = Sign(x)
                      /\ Abs(y) > CEILING
                      /\ Abs(y) <= Q

C7_Witness ==
    /\ pc = "normalize"
    /\ \E i \in Samples(pre_clip) : pre_clip.x[i[1]][i[2]] < -Q
    /\ \E i \in Samples(pre_clip) :
          pre_clip.x[i[1]][i[2]] = 990 /\ audio.x[i[1]][i[2]] = 989
    /\ \E i \in Samples(pre_clip) : pre_clip.x[i[1]][i[2]] = -700

\* C8: after 'peak' or 'loudness' normalization no sample is above 0.95 in
\* magnitude; with 'none', or on an all-zero signal, the signal is returned
\* as it was.
Normalized == guarded # NoAudio
C8_NormalizationBound ==
    Normalized =>
        /\ normalization \in {"peak", "loudness"} => Peak(audio) <= PEAK_TARGET
        /\ (normalization = "none" \/ Peak(guarded) = 0) => audio = guarded

C8_Witness ==
    /\ Normalized
    /\ normalization = "loudness"
    /\ Peak(guarded) > PEAK_TARGET
    /\ Peak(audio) = PEAK_TARGET

C8_WitnessQuiet ==
    /\ Normalized
    /\ normalization = "loudness"
    /\ Peak(audio) > 0 /\ Peak(audio) < PEAK_TARGET

\* C10: the audio written has as many samples per channel, and as many
\* channels, as the instrumental that was loaded.
C10_LengthPreserved ==
    Wrote =>
        /\ written.n = instrumental.n
        /\ written.ch = instrumental.ch
        /\ \A c \in 1..written.ch : DOMAIN written.x[c] = DOMAIN instrumental.x[c]

C10_Witness ==
    /\ Wrote
    /\ instrumental.n = 1200 /\ instrumental.ch = 1
    /\ stereo_widen /\ normalization = "peak"
    /\ written.n = 1200

\* C1: the progress values delivered to the external callback during one
\* invocation never decrease, whatever the interleaving of the worker's
\* milestone writes with the poller's reads, the final 100 included.
C1_MonotonicProgress ==
    \A i \in 1..(Len(delivered) - 1) : delivered[i] <= delivered[i + 1]

C1_Witness ==
    /\ ppc = "returned"
    /\ Len(delivered) = MaxPolls + 1
    /\ delivered[Len(delivered)] = 100
    /\ \E i \in 1..MaxPolls : delivered[i] < delivered[i + 1]
    /\ \E i \in 1..MaxPolls : delivered[i] = delivered[i + 1]

\* C3: every entry of the gain matrix that interpolation followed by
\* _compute_gain_matrix produces is at least 1.0, for every matrix, every
\* eq_level in 0..10 and both modes; so is every per-bin gain.
C3_GainNonAttenuation ==
    /\ \A b \in 1..Len(gain_matrix) : \A i \in 1..Len(gain_matrix[b]) :
          gain_matrix[b][i] >= Q
    /\ \A k \in DOMAIN bin_gain : \A i \in 1..Len(bin_gain[k]) :
          bin_gain[k][i] >= Q

C3_Witness ==
    /\ pc = "mono"
    /\ mode = "mix"
    /\ eq_level = 7
    /\ \E b \in 1..Len(intensity_matrix) : \E j \in 1..Len(intensity_matrix[b]) :
          intensity_matrix[b][j] < Q
    /\ \E k \in DOMAIN bin_gain : \E i \in 1..Len(bin_gain[k]) :
          bin_gain[k][i] > Q
    /\ \E k \in DOMAIN bin_gain : \E i \in 1..Len(bin_gain[k]) :
          bin_gain[k][i] = Q

\* The range np.clip keeps in each mode.
ModeClip(m, v) == IF m = "mix" THEN Max2(v, Q) ELSE Min2(Max2(v, 0), Q)
ModeFill(m) == IF m = "mix" THEN Q ELSE 0
Interpolated == interp_intensity # <<>>

Planned == band_edges # <<>>
PlannedGroups == map_bins_to_bands(PROC_N_FFT, instrumental.sr, band_edges)
BandsOf(groups, i) == {b \in 1..Len(groups) : i \in groups[b]}

\* C5: for the edges compute_band_edges returns for at least one band, the
\* bin groups of map_bins_to_bands are pairwise disjoint; a bin whose
\* frequency is at least 60 Hz and below min(16000, SR/2) is in exactly one
\* band, and every other bin is in none.
C5_BandPartition ==
    Planned =>
        LET groups == PlannedGroups
        IN  /\ \A b \in 1..(Len(band_edges) - 1) :
                  band_edges[b] < band_edges[b + 1]
            /\ \A a, b \in 1..Len(groups) :
                  a # b => groups[a] \cap groups[b] = {}
            /\ \A i \in 0..(PROC_N_FFT \div 2) :
                  IF /\ 2 * i * instrumental.sr >= F_MIN * PROC_N_FFT
                     /\ 2 * i * instrumental.sr
                           < Min2(F_CAP, instrumental.sr) * PROC_N_FFT
                  THEN Cardinality(BandsOf(groups, i)) = 1
                  ELSE BandsOf(groups, i) = {}

C5_Witness ==
    /\ Planned
    /\ instrumental.sr = 48000
    /\ Len(band_defs) = Pow2(MaxLevel)
    /\ LET groups == PlannedGroups
       IN  /\ \A b \in 1..Len(groups) : groups[b] # {}
           /\ BandsOf(groups, 2) = {} /\ BandsOf(groups, 800) = {}
           /\ BandsOf(groups, 100) # {}

\* C6: the frequency interval whose bins receive the gain of band b in
\* process_audio is the interval recorded for band b by the analysis at
\* 22050 Hz, whatever the sample rate of the instrumental.
C6_SamePartition ==
    Planned =>
        \A b \in 1..Len(band_defs) :
            /\ band_edges[b] = band_defs[b].low_hz
            /\ band_edges[b + 1] = band_defs[b].high_hz

Analyzed == mag_mix # <<>> /\ pc # "analyze"

\* C4: when the reference mix and the instrumental have the same RMS in
\* every band and frame, silence included, analyze_mix_reference yields
\* 1.0 everywhere, and for every eq_level in 0..10 the mix-mode gain matrix
\* is 1.0 everywhere.
C4_MixSelfIdentity ==
    (Analyzed /\ mag_mix = mag_inst) =>
        /\ \A b \in 1..Len(intensity_matrix) :
              \A f \in 1..Len(intensity_matrix[b]) : intensity_matrix[b][f] = Q
        /\ \A b \in 1..Len(gain_matrix) :
              \A i \in 1..Len(gain_matrix[b]) : gain_matrix[b][i] = Q

C4_Witness ==
    /\ Analyzed
    /\ mag_mix = mag_inst
    /\ \E b \in 1..Len(mag_mix) : \E f \in 1..Len(mag_mix[b]) : mag_mix[b][f] = 0
    /\ \E b \in 1..Len(mag_mix) : \E f \in 1..Len(mag_mix[b]) : mag_mix[b][f] > 0
    /\ eq_level = 10
    /\ gain_matrix # <<>>
    /\ Len(gain_matrix[1]) > 1

\* C13: a request for WAV creates no intermediate and runs no encoder; any
\* other request writes '<output>.tmp.wav' and runs the encoder, the
\* intermediate is gone exactly when the encoder has succeeded, and an
\* encoder failure raises without 100 being written.
Encoded == output = "encoded"
EncoderFailed == pc = "raised" /\ Wrote
C13_EncoderHandoff ==
    /\ is_wav => (~tmp_wav /\ ~Encoded /\ ~EncoderFailed)
    /\ (~is_wav /\ Wrote) =>
          /\ tmp_wav <=> ~Encoded
          /\ pc = "done" => Encoded
          /\ EncoderFailed => (tmp_wav /\ last_pct # 100 /\ reported[Len(reported)] # 100)

C13_Witness ==
    /\ ~is_wav
    /\ EncoderFailed
    /\ tmp_wav
    /\ last_pct = 95

\* C16: when the worker raises, process_audio_async ends by raising and
\* never delivers 100; 100 is delivered only after the worker has finished
\* without error and the output has been written.
Delivered100 == \E i \in 1..Len(delivered) : delivered[i] = 100
C16_NoSwallow ==
    /\ pc = "raised" => (~Delivered100 /\ ppc \notin {"final", "returned"})
    /\ ppc = "raised" => pc = "raised"
    /\ Delivered100 => (pc = "done" /\ Wrote /\ output \in {"wav", "encoded"})

C16_Witness ==
    /\ ppc = "raised"
    /\ Wrote
    /\ Len(delivered) = MaxPolls
    /\ delivered[MaxPolls] = 95

\* C17 as stated: a successful process_audio has written exactly the
\* milestones 5, 10, 15, 20, 45, 70, 80, 90, 95, 100, in that order.
AllMilestones == <<5, 10, 15, 20, 45, 70, 80, 90, 95, 100>>
C17_Milestones ==
    pc = "done" => reported = AllMilestones

\* C17, amended: a successful process_audio on a stereo file has written
\* exactly 5, 10, 15, 20, 45, 70, 80, 90, 95, 100, and on a mono file the
\* same list without 45, in that order; every value written lies in
\* [0, 100].
MonoMilestones == <<5, 10, 15, 20, 70, 80, 90, 95, 100>>
C17_MilestonesByChannels ==
    /\ \A i \in 1..Len(reported) : reported[i] >= 0 /\ reported[i] <= 100
    /\ pc = "done" =>
          reported = IF is_stereo THEN AllMilestones ELSE MonoMilestones

C17_Witness ==
    /\ pc = "done"
    /\ ~is_stereo
    /\ reported = MonoMilestones

\* C18: the gain applied to a channel has as many columns as the STFT has
\* frames (Fa); with F' = max(1, 1 + floor((num_samples - 2048) / 512))
\* precomputed columns, column f is the precomputed one for
\* f < min(Fa, F') and all 1.0 for F' <= f < Fa.
C18_FrameAlignment ==
    pc \in {"left", "right", "mono"} =>
        LET Fa == stft_frames(audio.n)
            Fp == Max2(1, 1 + (total_samples - PROC_N_FFT) \div PROC_HOP)
            bg == frame_gain(bin_gain, Fa)
        IN  \A k \in DOMAIN bin_gain :
                /\ Len(bin_gain[k]) = Fp
                /\ Len(bg[k]) = Fa
                /\ \A f \in 1..Fa :
                      bg[k][f] = IF f <= Min2(Fa, Fp) THEN bin_gain[k][f] ELSE Q

C18_Witness ==
    /\ pc = "right"
    /\ audio.n = 3100
    /\ Len(stft_frame_times) = 3
    /\ stft_frames(audio.n) = 7
    /\ \E k \in DOMAIN bin_gain : bin_gain[k][3] > Q

\* C19: in the per-bin gain matrix every bin assigned to band b has, in
\* every frame, the gain of band b, and every bin assigned to no band has
\* 1.0 in every frame.
Expanded == bin_gain # <<>>
C19_BandToBin ==
    Expanded =>
        \A k \in DOMAIN bin_gain :
            LET bands == {b \in 1..(Len(band_edges) - 1) :
                             BinInBand(k, PROC_N_FFT, instrumental.sr,
                                       band_edges[b], band_edges[b + 1])}
            IN  /\ \A b \in bands : bin_gain[k] = gain_matrix[b]
                /\ bands = {} =>
                      \A f \in 1..Len(bin_gain[k]) : bin_gain[k][f] = Q

C19_Witness ==
    /\ Expanded
    /\ Len(gain_matrix) = 2
    /\ gain_matrix[1] # gain_matrix[2]
    /\ \E k \in DOMAIN bin_gain : bin_gain[k] = gain_matrix[1] /\ bin_gain[k][1] > Q
    /\ \E k \in DOMAIN bin_gain : bin_gain[k] = gain_matrix[2]
    /\ \E k \in DOMAIN bin_gain : \A b \in 1..2 : k \notin bin_groups[b]

MatrixMax == SetMax({intensity_matrix[b][j] :
                        b \in 1..Len(intensity_matrix),
                        j \in 1..Len(intensity_matrix[1])})
C11_ArtifactMissing ==
    \A c \in Clients :
        LET h == handlers[c] IN
        (/\ h.endpoint = "process"
         /\ ProcessRequest(h.req)
         /\ "instrumental" \in h.seen
         /\ ~(CachedArtifacts \subseteq h.seen))
        => IF "vocal" \in h.seen
           THEN /\ h.ran
                /\ h.outcome # "analysis_failed" => (h.persisted /\ CachedArtifacts \subseteq stored)
           ELSE h.outcome = "reanalyze_required" /\ ~h.started

\* The ranges the parameters are declared with: mode, sensitivity and the
\* mode's band counts everywhere, eq_level and normalization for process.
DeclaredRanges(req) ==
    /\ req.mode \in {"vocal", "mix"}
    /\ req.sensitivity >= 1 /\ req.sensitivity <= 10
    /\ req.band_count >= 6
    /\ req.band_count <= (IF req.mode = "vocal" THEN 24 ELSE 32)
    /\ req.eq_level >= 0 /\ req.eq_level <= 10
    /\ req.normalization \in {"none", "peak", "loudness"}

\* C12: a request of analyze, reanalyze or process with a parameter outside
\* its declared range runs no analyzer, starts no processing and persists
\* nothing.
C12_RejectedAtBoundary ==
    \A c \in Clients :
        LET h == handlers[c] IN
        (h.state # "idle" /\ ~DeclaredRanges(h.req))
        => (~h.ran /\ ~h.persisted /\ ~h.started)

\* The handlers whose worker is writing the session's output file.
Processing == {c \in Clients : handlers[c].state = "processing"}

\* C14: at most one processing invocation is active on the session at any
\* time, whatever the interleaving of process requests.
C14_SingleInvocation == Cardinality(Processing) <= 1

\* The listener ws is still to be served by the broadcast under way.
Pending(ws) == ppc = "broadcast" /\ \E t \in 1..Len(bc.todo) : bc.todo[t] = ws

\* C15: a send that fails is passed over. The poller raises only what the
\* worker raised and returns only after the worker wrote its output, and
\* every value handed to the callback is sent to every listener of the
\* session, whatever happened to the sends before it.
C15_DeliveryFailureIgnored ==
    /\ ppc = "raised" => pc = "raised"
    /\ ppc = "returned" => (pc = "done" /\ Wrote /\ Encoded)
    /\ \A i \in 1..Len(conns) :
          LET ws == conns[i]
              tried == ws_log[ws].tried
          IN /\ Len(tried) = IF Pending(ws) THEN Len(delivered) - 1 ELSE Len(delivered)
             /\ \A j \in 1..Len(tried) : tried[j] = delivered[j]
             /\ ws_log[ws].failed <= Len(tried)

\* A send to the first listener failed; the second listener received that
\* value and every other; the first received the final 100, and the call
\* returned.
C15_Witness ==
    /\ ppc = "returned"
    /\ pc = "done"
    /\ conns = <<"w1", "w2">>
    /\ Len(delivered) >= 2
    /\ ws_log["w1"].failed >= 1
    /\ ws_log["w1"].last
    /\ ws_log["w2"].failed = 0
    /\ ws_log["w2"].tried = delivered

\* The scale the vocal-mode formula gives a band center (half-Hz), in 1/Q.
VocalScale(center) ==
    IF 2 * 200 <= center /\ center <= 2 * 4000 THEN 1200
    ELSE IF center < 2 * 100 \/ center > 2 * 6000 THEN 700
    ELSE 1000

\* C21: in vocal mode with eq_level in 1..10 every entry of the gain matrix
\* is 1 + (eq_level * 0.25) * s(center_b) * I[b, f], with s = 1.2 for centers
\* in [200, 4000] Hz, 0.7 below 100 Hz or above 6000 Hz, and 1.0 between.
\* With gains, scales and intensities in 1/Q the product eq_level * 0.25 *
\* s * I is eq_level * s * I / (4 * Q).
C21_VocalGain ==
    (mode = "vocal" /\ eq_level >= 1 /\ gain_matrix # <<>>) =>
        /\ Len(gain_matrix) = Len(band_defs)
        /\ \A b \in 1..Len(band_defs) :
              /\ Len(gain_matrix[b]) = Len(interp_intensity[b])
              /\ \A f \in 1..Len(gain_matrix[b]) :
                    gain_matrix[b][f] =
                        Q + IDiv(eq_level * VocalScale(band_defs[b].center_hz) * interp_intensity[b][f], 4 * Q)

\* Two bands at full intensity and eq_level 10: the band centred on 200 Hz
\* is at 1 + 2.5 * 1.2 = 4.0, the band centred on 6000.5 Hz at
\* 1 + 2.5 * 0.7 = 2.75.
C21_Witness ==
    /\ pc = "expand"
    /\ mode = "vocal"
    /\ eq_level = 10
    /\ Len(band_defs) = 2
    /\ band_defs[1].center_hz = 400
    /\ band_defs[2].center_hz = 12001
    /\ interp_intensity[1][1] = Q
    /\ interp_intensity[2][1] = Q
    /\ gain_matrix[1][1] = 4 * Q
    /\ gain_matrix[2][1] = 2750

\* C22: the persisted mode marker is "vocal" or "mix"; while a matrix is
\* persisted the marker names the analysis that produced it; and a process
\* call applies the formula of the mode that produced the matrix it uses.
C22_ModeMarker ==
    /\ mode_txt # "none" => mode_txt \in {"vocal", "mix"}
    /\ "matrix" \in stored => mode_txt = matrix_mode
    /\ \A c \in Clients :
          handlers[c].started => AnalyzerOf(handlers[c].mode) = handlers[c].loaded

====
